---- MODULE Spec2Model ----
(***************************************************************************)
(* Model of the cache emulator: the Address decoder (emulator/address.py), *)
(* the Block (emulator/block.py), the RAM (emulator/ram.py), the Cache     *)
(* (emulator/cache.py) and the CPU facade (emulator/cpu.py).               *)
(*                                                                         *)
(* Python strings of '0'/'1' are sequences over {0, 1}.  Block objects     *)
(* live in a heap and are held by reference, as in Python: a cache row and *)
(* a RAM row that were given the same Block hold the same reference.       *)
(* datetime.now() is a wall-clock reading: each call returns the previous  *)
(* reading or a later one.                                                 *)
(***************************************************************************)
EXTENDS Integers, Sequences, FiniteSets, TLC

VARIABLES
    block_size,     \* Cache.block_size
    replacement,    \* Cache.replacement
    sets,           \* Cache.sets: set number -> first row of the set
    blocks_per_set, \* Cache.blocks_per_set
    blocks,         \* Cache.blocks: row number -> [valid, tag, block, time_in, time_acc]
    read_hits, read_misses, write_hits, write_misses,   \* Cache counters
    ram,            \* RAM.blocks: block number -> [valid, block]
    heap,           \* the Block objects: reference -> [data, tag]
    instructions,   \* CPU.instructions
    clock,          \* the last reading of datetime.now()
    err,            \* the exception that ended the run, or "none"
    addr,           \* the Address object most recently constructed
    hist,           \* the calls made on the CPU so far, each with its outcome
                    \* and the reading of the clock when it returned
    inputs,         \* main: the arguments of the run and the inputs dict
    pc,             \* main: the number of the statement to execute next
    regs            \* the driver's arrays r1, r2, r3, r4 and c_print

vars == << block_size, replacement, sets, blocks_per_set, blocks,
           read_hits, read_misses, write_hits, write_misses,
           ram, heap, instructions, clock, err, addr, hist,
           inputs, pc, regs >>

(***************************************************************************)
(* Bounds of the model.                                                    *)
(***************************************************************************)
\* the driver of Spec touches the blocks 0..MaxBlock of two words each
MaxBlock == 2
\* the number of loads and stores of a run of Spec
MaxOps == 3
\* the tags the driver of SpecEvict uses in each set are 0..MaxTag
MaxTag == 2
\* the number of loads and stores of a run of SpecEvict
MaxEvictOps == 5
\* block size, cache rows and sets of SpecConfig range up to MaxGeom
MaxGeom == 4
\* the number of loads and stores of a run of SpecConfig
MaxConfigOps == 1
\* block size, cache rows and sets of SpecAddr are the powers of two up to 2^MaxLog
MaxLog == 2
\* SpecAddr decodes the MaxDecode + 1 lowest addresses and the MaxDecode + 1
\* highest addresses below 2^31
MaxDecode == 3
\* the arrays passed to add, multiply and matmul have dimension 1..MaxDim, and
\* main runs the workload with dimension 0..MaxDim
MaxDim == 2
\* the number of calls of a run of SpecCpu
MaxCpuOps == 2
\* in a run of main the clock can repeat a reading during the first MaxTies
\* calls of the workload
MaxTies == 3

(***************************************************************************)
(* Program constants.                                                      *)
(***************************************************************************)
\* the width of an address in bits
AddrBits == 32
\* np.nan: the content of a word never written, the time of a row never used
NaN == -1
\* Python's None as a value returned by load
None == -2
\* Python's None as a Block reference
NoBlock == 0
\* Python's None as a tag: no string of binary digits equals it
NoneTag == << 2 >>

Policies == {"random", "FIFO", "LRU"}
\* SIZE: bytes per word
SIZE == 8

(***************************************************************************)
(* Python primitives.                                                      *)
(***************************************************************************)
Min(a, b) == IF a < b THEN a ELSE b
Max(a, b) == IF a > b THEN a ELSE b

\* bin(n)[2:]
RECURSIVE Bin(_)
Bin(n) == IF n < 2 THEN << n >> ELSE Bin(n \div 2) \o << n % 2 >>

\* "0" * k (the empty string when k <= 0)
Zeros(k) == [i \in 1..Max(k, 0) |-> 0]

\* int(s, 2) of a non-empty string of binary digits
RECURSIVE ToIntUpTo(_, _)
ToIntUpTo(s, k) == IF k = 0 THEN 0 ELSE 2 * ToIntUpTo(s, k - 1) + s[k]
ToInt(s) == ToIntUpTo(s, Len(s))

\* s[lo:hi] with Python's treatment of negative and out-of-range bounds
PySlice(s, lo, hi) ==
    LET n == Len(s)
        norm(i) == IF i < 0 THEN Max(i + n, 0) ELSE Min(i, n)
        l == norm(lo)
        h == norm(hi)
    IN  IF l >= h THEN << >> ELSE SubSeq(s, l + 1, h)

\* int(math.log(x, 2)) for x >= 1: the logarithm rounded down
RECURSIVE Log2Int(_)
Log2Int(x) == IF x < 2 THEN 0 ELSE 1 + Log2Int(x \div 2)

IsPow2(x) == x >= 1 /\ x = 2 ^ Log2Int(x)

(***************************************************************************)
(* numpy arrays: a shape (<< n >> for a vector, << n, n >> for a matrix)    *)
(* and the elements in row-major order.                                    *)
(***************************************************************************)
NpArray(shape, data) == [ shape |-> shape, data |-> data ]

\* the number of elements of an array of a shape
NpCount(shape) == IF Len(shape) = 1 THEN shape[1] ELSE shape[1] * shape[2]

\* np.zeros_like of a list or array of a shape
NpZeros(shape) == NpArray(shape, [k \in 1..NpCount(shape) |-> 0])

\* len(arr): the length of the first axis
NpLen(arr) == arr.shape[1]

\* the shapes of the two operands of an elementwise operation agree, or one of
\* them is a single element that is broadcast
NpCompatible(x, y) == x.shape = y.shape \/ x.shape = << 1 >> \/ y.shape = << 1 >>

\* the element of x that meets element k of the result
NpElem(x, k) == IF x.shape = << 1 >> THEN x.data[1] ELSE x.data[k]

\* the shape of the result of an elementwise operation
NpShape(x, y) == IF x.shape = << 1 >> THEN y.shape ELSE x.shape

\* arr1 + arr2
NpAdd(x, y) ==
    NpArray(NpShape(x, y),
            [k \in 1..NpCount(NpShape(x, y)) |-> NpElem(x, k) + NpElem(y, k)])

\* the elements are added instead of multiplied
NpMulMut(x, y) ==
    NpArray(NpShape(x, y),
            [k \in 1..NpCount(NpShape(x, y)) |-> NpElem(x, k) + NpElem(y, k)])

\* arr1 * arr2
NpMul(x, y) ==
    NpArray(NpShape(x, y),
            [k \in 1..NpCount(NpShape(x, y)) |-> NpElem(x, k) * NpElem(y, k)])

\* the sum over k = 1..m of x[i][k] * y[k][j] for n x n matrices
RECURSIVE NpDot(_, _, _, _, _, _)
NpDot(x, y, n, i, j, m) ==
    IF m = 0 THEN 0
    ELSE NpDot(x, y, n, i, j, m - 1)
            + x.data[(i - 1) * n + m] * y.data[(m - 1) * n + j]

\* np.matmul(mat1, mat2) of two n x n matrices
NpMatmul(x, y) ==
    LET n == NpLen(x)
    IN  NpArray(<< n, n >>,
                [k \in 1..(n * n) |->
                    NpDot(x, y, n, ((k - 1) \div n) + 1, ((k - 1) % n) + 1, n)])

(***************************************************************************)
(* emulator/address.py                                                     *)
(***************************************************************************)
\* Address._get_binary
GetBinary(address) ==
    LET binary == Bin(address)
    IN  Zeros(AddrBits - Len(binary)) \o binary

\* Address._get_index_len
GetIndexLen(nsets, entries) ==
    IF nsets = 1 THEN Log2Int(entries)
    ELSE IF nsets = entries THEN 0
    ELSE Log2Int(nsets)

\* math.log raises ValueError for an argument <= 0
AddressRaises(bsize, entries, nsets) ==
    \/ bsize <= 0
    \/ nsets = 1 /\ entries <= 0
    \/ nsets # 1 /\ nsets # entries /\ nsets <= 0

\* Address.__init__
Address(address, bsize, entries, nsets) ==
    LET offset_len == Log2Int(bsize)
        index_len  == GetIndexLen(nsets, entries)
    IN  [ address    |-> GetBinary(address),
          offset_len |-> offset_len,
          index_len  |-> index_len,
          tag_len    |-> AddrBits - offset_len - index_len ]

\* Address.get_tag
GetTag(A) == PySlice(A.address, 0, A.tag_len)

\* Address.get_index
GetIndex(A) == PySlice(A.address, A.tag_len, A.tag_len + A.index_len)

\* Address.get_offset: address[-offset_len:], and -0 is 0
GetOffset(A) == PySlice(A.address, 0 - A.offset_len, Len(A.address))

(***************************************************************************)
(* emulator/block.py                                                       *)
(***************************************************************************)
\* Block.__init__: size words of np.nan and no tag
NewBlock(size) == [ data |-> [i \in 0..(size - 1) |-> NaN], tag |-> NoneTag ]

\* the tag is set and the word is left as it was
BlockSetValMut(hp, ref, val, loc, tag) ==
    IF ref = NoBlock THEN [ heap |-> hp, err |-> "AttributeError" ]
    ELSE IF loc \notin DOMAIN hp[ref].data
         THEN [ heap |-> [hp EXCEPT ![ref].tag = tag], err |-> "IndexError" ]
         ELSE [ heap |-> [hp EXCEPT ![ref].tag = tag], err |-> "none" ]

\* Block.set_val on the Block behind reference ref: the tag is set first, then
\* the word; data[loc] raises IndexError when loc is outside the block
BlockSetVal(hp, ref, val, loc, tag) ==
    IF ref = NoBlock THEN [ heap |-> hp, err |-> "AttributeError" ]
    ELSE IF loc \notin DOMAIN hp[ref].data
         THEN [ heap |-> [hp EXCEPT ![ref].tag = tag], err |-> "IndexError" ]
         ELSE [ heap |-> [hp EXCEPT ![ref].tag = tag, ![ref].data[loc] = val],
                err  |-> "none" ]

\* block.data[offset] on the Block behind reference ref
BlockRead(hp, ref, offset) ==
    IF ref = NoBlock THEN [ ret |-> None, err |-> "AttributeError" ]
    ELSE IF offset \notin DOMAIN hp[ref].data
         THEN [ ret |-> None, err |-> "IndexError" ]
         ELSE [ ret |-> hp[ref].data[offset], err |-> "none" ]

(***************************************************************************)
(* emulator/ram.py                                                         *)
(***************************************************************************)
\* int(tag + index, 2): the row of RAM a tag and an index name
RamIndex(tag, index) == ToInt(tag \o index)

\* RAM.__init__: every row is [False, <the one Block built here>]
NewRam(nblocks, ref) == [i \in 0..(nblocks - 1) |-> [ valid |-> FALSE, block |-> ref ]]

\* RAM.get_block: the Block reference of a valid row, else None
RamGetBlock(rm, tag, index) ==
    LET i == RamIndex(tag, index)
    IN  IF i \notin DOMAIN rm THEN [ block |-> NoBlock, err |-> "IndexError" ]
        ELSE IF rm[i].valid THEN [ block |-> rm[i].block, err |-> "none" ]
        ELSE [ block |-> NoBlock, err |-> "none" ]

\* RAM.set_block: the row holds the reference it is given
RamSetBlock(rm, tag, index, data) ==
    LET i == RamIndex(tag, index)
    IN  IF i \notin DOMAIN rm THEN [ ram |-> rm, err |-> "IndexError" ]
        ELSE [ ram |-> [rm EXCEPT ![i] = [ valid |-> TRUE, block |-> data ]],
               err |-> "none" ]

(***************************************************************************)
(* emulator/cache.py                                                       *)
(***************************************************************************)
\* datetime.now(): the readings a call can return after the reading clk.  A
\* reading can repeat the one before it; in a run of main the patterns of
\* repeated readings explored are those of the first MaxTies calls of the
\* workload, and every later reading is a later time.
Now(clk) == IF inputs.algorithm = "none" \/ Len(hist) < MaxTies
            THEN {clk, clk + 1} ELSE {clk + 1}

\* Cache._get_sets: set i starts at row i * blocks_per_set
GetSets(nsets, nblocks) == [i \in 0..(nsets - 1) |-> i * (nblocks \div nsets)]

\* Cache.__init__: every row is [False, None, <the one Block built here>, nan, nan]
NewBlocks(nblocks, ref) ==
    [i \in 0..(nblocks - 1) |->
        [ valid |-> FALSE, tag |-> NoneTag, block |-> ref,
          time_in |-> NaN, time_acc |-> NaN ]]

\* the row get_block returns when no row of the set matches
NoRow == [ valid |-> FALSE, tag |-> NoneTag, block |-> NoBlock,
           time_in |-> None, time_acc |-> None ]

\* the index string is never converted: every address selects row or set 0
IndexOfMut(A) == 0

\* index = 0 if not index else int(index, 2)
IndexOf(A) == LET index == GetIndex(A)
              IN  IF index = << >> THEN 0 ELSE ToInt(index)

\* len(self.sets) == 1
DirectMapped(sts) == Cardinality(DOMAIN sts) = 1

\* the slice runs one row too far: self.blocks[start:end + 1]
SetRowsMut(blks, start, bps) == {i \in DOMAIN blks : start <= i /\ i <= start + bps}

\* the rows of self.blocks[start:end]
SetRows(blks, start, bps) == {i \in DOMAIN blks : start <= i /\ i < start + bps}

\* the last element is taken instead of the first
SetMinMut(S) == CHOOSE x \in S : \A y \in S : x >= y

\* the first of the row numbers np.where returns: the lowest
SetMin(S) == CHOOSE x \in S : \A y \in S : x <= y

\* Cache.get_block: the row number and the row that answer the address
CacheGetBlock(blks, sts, bps, A) ==
    LET index == IndexOf(A)
        tag   == GetTag(A)
    IN  IF DirectMapped(sts) THEN [ ix |-> index, row |-> blks[index] ]
        ELSE LET start    == sts[index]
                 matching == {i \in SetRows(blks, start, bps) :
                                 blks[i].valid /\ blks[i].tag = tag}
             IN  IF matching # {}
                 THEN [ ix |-> SetMin(matching), row |-> blks[SetMin(matching)] ]
                 ELSE [ ix |-> 0 - 1, row |-> NoRow ]

\* np.argmin over a column of self.blocks[start:end]: the position, counted
\* from the start of the slice, of the first smallest entry
ArgMin(blks, start, bps, col) ==
    LET rows == SetRows(blks, start, bps)
        least == SetMin({blks[i][col] : i \in rows})
    IN  SetMin({i \in rows : blks[i][col] = least}) - start

\* Cache.replace: the row numbers the strategy can pick
ReplaceIx(blks, sts, bps, repl, index) ==
    LET start == sts[index]
    IN  IF repl = "random" THEN start..(start + bps - 1)
        ELSE IF repl = "LRU" THEN {ArgMin(blks, start, bps, "time_acc")}
        ELSE {ArgMin(blks, start, bps, "time_in")}

\* the replaced row is written back with its valid flag cleared
ReplaceMut(blks, sts, bps, repl, tag, index, data, clk) ==
    { [ blocks |-> [blks EXCEPT ![ix] =
                      [ valid |-> FALSE, tag |-> tag, block |-> data,
                        time_in |-> time, time_acc |-> time ]],
        clock  |-> time ] :
      ix \in ReplaceIx(blks, sts, bps, repl, index), time \in Now(clk) }

\* Cache.replace: the outcomes [blocks, clock] of replacing a row of a full set
Replace(blks, sts, bps, repl, tag, index, data, clk) ==
    { [ blocks |-> [blks EXCEPT ![ix] =
                      [ valid |-> TRUE, tag |-> tag, block |-> data,
                        time_in |-> time, time_acc |-> time ]],
        clock  |-> time ] :
      ix \in ReplaceIx(blks, sts, bps, repl, index), time \in Now(clk) }

\* Cache.set_block: the outcomes [blocks, clock] of installing a Block
CacheSetBlock(blks, sts, bps, repl, A, data, clk) ==
    LET tag   == GetTag(A)
        index == IndexOf(A)
        Install(time) ==
            IF DirectMapped(sts)
            THEN LET time_in == IF blks[index].valid THEN blks[index].time_in
                                ELSE time
                 IN  { [ blocks |-> [blks EXCEPT ![index] =
                                       [ valid |-> TRUE, tag |-> tag, block |-> data,
                                         time_in |-> time_in, time_acc |-> time ]],
                         clock  |-> time ] }
            ELSE LET start  == sts[index]
                     valids == {i \in SetRows(blks, start, bps) : ~blks[i].valid}
                 IN  IF valids # {}
                     THEN { [ blocks |-> [blks EXCEPT ![SetMin(valids)] =
                                            [ valid |-> TRUE, tag |-> tag,
                                              block |-> data,
                                              time_in |-> time, time_acc |-> time ]],
                              clock  |-> time ] }
                     ELSE Replace(blks, sts, bps, repl, tag, index, data, time)
    IN  UNION { Install(time) : time \in Now(clk) }

\* the rows, set table and counters of a Cache, with the RAM and the heap
\* its methods read and write
Machine ==
    [ blocks |-> blocks, ram |-> ram, heap |-> heap, clock |-> clock,
      read_hits |-> read_hits, read_misses |-> read_misses,
      write_hits |-> write_hits, write_misses |-> write_misses ]

\* the outcome of a call: the machine it leaves, whether it hit, what it
\* returned and the exception it raised
Outcome(M, hit, ret, e) == [ m |-> M, hit |-> hit, ret |-> ret, err |-> e ]

\* Cache.get_val: the outcomes of reading the word at address A
CacheGetVal(M, sts, bps, repl, A) ==
    LET offset == ToInt(GetOffset(A))
        got    == CacheGetBlock(M.blocks, sts, bps, A)
        row    == got.row
        tag    == GetTag(A)
    IN  IF row.valid /\ tag = row.tag
        THEN \* hit
             { LET M1 == [M EXCEPT !.read_hits = @ + 1,
                                   !.blocks[got.ix] =
                                       [ valid |-> TRUE, tag |-> row.tag,
                                         block |-> row.block,
                                         time_in |-> row.time_in,
                                         time_acc |-> time ],
                                   !.clock = time]
                   rd == BlockRead(M.heap, row.block, offset)
               IN  Outcome(M1, TRUE, rd.ret, rd.err) : time \in Now(M.clock) }
        ELSE \* miss
             LET M1  == [M EXCEPT !.read_misses = @ + 1]
                 got2 == RamGetBlock(M.ram, tag, GetIndex(A))
             IN  IF got2.err # "none" THEN { Outcome(M1, FALSE, None, got2.err) }
                 ELSE IF row.block # NoBlock
                 THEN { LET rd == BlockRead(M.heap, got2.block, offset)
                        IN  Outcome([M1 EXCEPT !.blocks = sb.blocks,
                                               !.clock = sb.clock],
                                    FALSE, rd.ret, rd.err) :
                        sb \in CacheSetBlock(M.blocks, sts, bps, repl, A,
                                             got2.block, M.clock) }
                 ELSE { Outcome(M1, FALSE, None, "none") }

\* Cache.set_val: the outcomes of writing val to the word at address A
CacheSetVal(M, sts, bps, repl, bsize, A, val) ==
    LET offset == ToInt(GetOffset(A))
        got    == CacheGetBlock(M.blocks, sts, bps, A)
        row    == got.row
        tag    == GetTag(A)
    IN  IF row.valid /\ tag = row.tag
        THEN \* hit
             LET M1 == [M EXCEPT !.write_hits = @ + 1]
                 sv == BlockSetVal(M.heap, row.block, val, offset, tag)
                 M2 == [M1 EXCEPT !.heap = sv.heap]
             IN  IF sv.err # "none" THEN { Outcome(M2, TRUE, None, sv.err) }
                 ELSE { LET M3 == [M2 EXCEPT !.blocks[got.ix] =
                                       [ valid |-> TRUE, tag |-> row.tag,
                                         block |-> row.block,
                                         time_in |-> row.time_in,
                                         time_acc |-> time ],
                                   !.clock = time]
                            rs == RamSetBlock(M.ram, tag, GetIndex(A), row.block)
                        IN  Outcome([M3 EXCEPT !.ram = rs.ram], TRUE, None, rs.err) :
                        time \in Now(M.clock) }
        ELSE \* miss
             LET M1   == [M EXCEPT !.write_misses = @ + 1]
                 got2 == RamGetBlock(M.ram, tag, GetIndex(A))
                 inram == got2.block # NoBlock /\ M.heap[got2.block].tag = tag
                 \* not in ram: a new Block is built
                 fresh == Len(M.heap) + 1
                 block == IF inram THEN got2.block ELSE fresh
                 hp0   == IF inram THEN M.heap ELSE Append(M.heap, NewBlock(bsize))
                 sv    == BlockSetVal(hp0, block, val, offset, tag)
                 M2    == [M1 EXCEPT !.heap = sv.heap]
                 rs    == IF inram THEN [ ram |-> M.ram, err |-> "none" ]
                          ELSE RamSetBlock(M.ram, tag, GetIndex(A), block)
                 M3    == [M2 EXCEPT !.ram = rs.ram]
             IN  IF got2.err # "none" THEN { Outcome(M1, FALSE, None, got2.err) }
                 ELSE IF sv.err # "none" THEN { Outcome(M2, FALSE, None, sv.err) }
                 ELSE IF rs.err # "none" THEN { Outcome(M3, FALSE, None, rs.err) }
                 ELSE { Outcome([M3 EXCEPT !.blocks = sb.blocks, !.clock = sb.clock],
                                FALSE, None, "none") :
                        sb \in CacheSetBlock(M.blocks, sts, bps, repl, A,
                                             block, M.clock) }

(***************************************************************************)
(* emulator/cpu.py and the driver's construction of the CPU                *)
(***************************************************************************)
\* the geometries a run of Spec is constructed with: block size, number of
\* sets as the Cache counts them, number of rows of the cache
DirectGeometry == [ bsize |-> 2, nsets |-> 1, nblocks |-> 2 ]
SetAssocGeometry == [ bsize |-> 2, nsets |-> 2, nblocks |-> 4 ]
FullAssocGeometry == [ bsize |-> 2, nsets |-> 2, nblocks |-> 2 ]
Geometries == {DirectGeometry, SetAssocGeometry, FullAssocGeometry}

\* the addresses the driver passes to load and store: the first word of each
\* block and the second word of the last one
MaxAddr == 2 * MaxBlock + 1
Addrs == {2 * k : k \in 0..MaxBlock} \cup {MaxAddr}

\* the driver stores a fresh value with each store
Vals == {instructions + 1}

\* main: blocks_in_ram = -(ram size // -blocksize), the ram size covering
\* every address up to top
BlocksInRam(top, bsize) == IF bsize = 0 THEN 0 ELSE 0 - ((0 - (top + 1)) \div bsize)

NoOp == [ name |-> "none", address |-> 0, val |-> None, ret |-> None,
          hit |-> FALSE, time |-> 0 ]

\* the call most recently made
LastOp == IF hist = << >> THEN NoOp ELSE hist[Len(hist)]

NoAddress == [ address |-> << >>, offset_len |-> 0, index_len |-> 0, tag_len |-> 0 ]

\* CPU.__init__: Cache(block_size, num_sets, num_blocks_cache, replacement),
\* then RAM(num_blocks_ram, block_size); each builds one Block
Construct(g, repl, nram) ==
    /\ block_size = g.bsize
    /\ replacement = repl
    /\ sets = GetSets(g.nsets, g.nblocks)
    /\ blocks_per_set = g.nblocks \div g.nsets
    /\ heap = << NewBlock(g.bsize), NewBlock(g.bsize) >>
    /\ blocks = NewBlocks(g.nblocks, 1)
    /\ read_hits = 0 /\ read_misses = 0 /\ write_hits = 0 /\ write_misses = 0
    /\ ram = NewRam(nram, 2)
    /\ instructions = 0
    /\ clock = 0
    /\ err = "none"
    /\ addr = NoAddress
    /\ hist = << >>

\* a CPU driven call by call rather than by main: no arguments, no workload
NoInputs == [ algorithm |-> "none" ]
NoRegs == [ r1 |-> NpZeros(<< 0 >>), r2 |-> NpZeros(<< 0 >>),
            r3 |-> NpZeros(<< 0 >>), r4 |-> NpZeros(<< 0 >>),
            c_print |-> NpZeros(<< 0 >>) ]
NoProgram == inputs = NoInputs /\ pc = 0 /\ regs = NoRegs

Init == \E g \in Geometries, repl \in Policies :
            Construct(g, repl, BlocksInRam(MaxAddr, g.bsize)) /\ NoProgram

\* len(self.cache.blocks) and len(self.cache.sets)
NumBlocks == Cardinality(DOMAIN blocks)
NumSets == Cardinality(DOMAIN sets)

\* the number of loads and stores made so far
Ops == read_hits + read_misses + write_hits + write_misses

\* a hit starts the write-miss counter again from zero
BecomesMut(o) ==
    /\ blocks' = o.m.blocks
    /\ ram' = o.m.ram
    /\ heap' = o.m.heap
    /\ clock' = o.m.clock
    /\ read_hits' = o.m.read_hits
    /\ read_misses' = o.m.read_misses
    /\ write_hits' = o.m.write_hits
    /\ write_misses' = IF o.hit THEN 0 ELSE o.m.write_misses
    /\ err' = o.err

\* the machine an outcome leaves becomes the state
Becomes(o) ==
    /\ blocks' = o.m.blocks
    /\ ram' = o.m.ram
    /\ heap' = o.m.heap
    /\ clock' = o.m.clock
    /\ read_hits' = o.m.read_hits
    /\ read_misses' = o.m.read_misses
    /\ write_hits' = o.m.write_hits
    /\ write_misses' = o.m.write_misses
    /\ err' = o.err

\* CPU.load; math.log raises ValueError before anything is counted
Load(a) ==
    /\ err = "none"
    /\ IF AddressRaises(block_size, NumBlocks, NumSets)
       THEN /\ err' = "ValueError"
            /\ hist' = Append(hist, [ name |-> "load", address |-> a,
                                      val |-> None, ret |-> None, hit |-> FALSE,
                                      time |-> clock ])
            /\ UNCHANGED << blocks, ram, heap, clock, read_hits, read_misses,
                            write_hits, write_misses, instructions, addr >>
       ELSE LET A == Address(a, block_size, NumBlocks, NumSets)
            IN  /\ addr' = A
                /\ instructions' = instructions + 1
                /\ \E o \in CacheGetVal(Machine, sets, blocks_per_set,
                                        replacement, A) :
                      /\ Becomes(o)
                      /\ hist' = Append(hist, [ name |-> "load", address |-> a,
                                                val |-> None, ret |-> o.ret,
                                                hit |-> o.hit,
                                                time |-> o.m.clock ])
    /\ UNCHANGED << block_size, replacement, sets, blocks_per_set >>

\* CPU.store
Store(a, v) ==
    /\ err = "none"
    /\ IF AddressRaises(block_size, NumBlocks, NumSets)
       THEN /\ err' = "ValueError"
            /\ hist' = Append(hist, [ name |-> "store", address |-> a,
                                      val |-> v, ret |-> None, hit |-> FALSE,
                                      time |-> clock ])
            /\ UNCHANGED << blocks, ram, heap, clock, read_hits, read_misses,
                            write_hits, write_misses, instructions, addr >>
       ELSE LET A == Address(a, block_size, NumBlocks, NumSets)
            IN  /\ addr' = A
                /\ instructions' = instructions + 1
                /\ \E o \in CacheSetVal(Machine, sets, blocks_per_set,
                                        replacement, block_size, A, v) :
                      /\ Becomes(o)
                      /\ hist' = Append(hist, [ name |-> "store", address |-> a,
                                                val |-> v, ret |-> None,
                                                hit |-> o.hit,
                                                time |-> o.m.clock ])
    /\ UNCHANGED << block_size, replacement, sets, blocks_per_set >>

Next ==
    \/ \E a \in Addrs :
          Len(hist) < MaxOps /\ Load(a) /\ UNCHANGED << inputs, pc, regs >>
    \/ \E a \in Addrs, v \in Vals :
          Len(hist) < MaxOps /\ Store(a, v) /\ UNCHANGED << inputs, pc, regs >>

Spec == Init /\ [][Next]_vars

(***************************************************************************)
(* The initialisation phase of a workload (a sequence of stores) on the    *)
(* two-way set-associative cache; the driver touches the tags 0..MaxTag of *)
(* each of the two sets, at offset 0.                                      *)
(***************************************************************************)
EvictAddrs == {4 * t + 2 * i : t \in 0..MaxTag, i \in 0..1}

InitEvict == \E repl \in Policies :
                Construct(SetAssocGeometry, repl, BlocksInRam(4 * MaxTag + 3, 2))
                /\ NoProgram

NextEvict == \E a \in EvictAddrs, v \in Vals :
                Len(hist) < MaxEvictOps /\ Store(a, v)
                /\ UNCHANGED << inputs, pc, regs >>

SpecEvict == InitEvict /\ [][NextEvict]_vars

(***************************************************************************)
(* The Address decoder alone, on every valid geometry: block size, number  *)
(* of rows and number of sets are powers of two and the sets divide the    *)
(* rows.  The model checker's integers end at 2^31 - 1, so the highest     *)
(* addresses decoded are the ones just below 2^31.                         *)
(***************************************************************************)
AddrGeometries ==
    { [ bsize |-> 2 ^ b, nsets |-> 2 ^ s, nblocks |-> 2 ^ n ] :
      b \in 0..MaxLog, s \in 0..MaxLog, n \in 0..MaxLog }

DecodeAddrs == (0..MaxDecode) \cup { 2147483647 - k : k \in 0..MaxDecode }

InitAddr == \E g \in { x \in AddrGeometries : x.nsets <= x.nblocks } :
                Construct(g, "LRU", BlocksInRam(MaxDecode, g.bsize)) /\ NoProgram

\* Address(address, block_size, len(cache.blocks), len(cache.sets)), as
\* CPU.load and CPU.store construct it
Decode(a) ==
    /\ err = "none"
    /\ ~AddressRaises(block_size, NumBlocks, NumSets)
    /\ addr' = Address(a, block_size, NumBlocks, NumSets)
    /\ hist' = << [ name |-> "decode", address |-> a, val |-> None,
                    ret |-> None, hit |-> FALSE, time |-> clock ] >>
    /\ UNCHANGED << block_size, replacement, sets, blocks_per_set, blocks,
                    read_hits, read_misses, write_hits, write_misses,
                    ram, heap, instructions, clock, err, inputs, pc, regs >>

NextAddr == \E a \in DecodeAddrs : Decode(a)

SpecAddr == InitAddr /\ [][NextAddr]_vars

(***************************************************************************)
(* Construction with any geometry, valid or not, followed by loads and     *)
(* stores.                                                                 *)
(***************************************************************************)
ConfigGeometries ==
    { [ bsize |-> b, nsets |-> s, nblocks |-> n ] :
      b \in 0..MaxGeom, s \in 1..MaxGeom, n \in 1..MaxGeom }

InitConfig == \E g \in { x \in ConfigGeometries : x.nsets <= x.nblocks },
                 repl \in Policies :
                 Construct(g, repl, BlocksInRam(MaxAddr, g.bsize)) /\ NoProgram

NextConfig ==
    \/ \E a \in Addrs :
          Len(hist) < MaxConfigOps /\ Load(a) /\ UNCHANGED << inputs, pc, regs >>
    \/ \E a \in Addrs, v \in Vals :
          Len(hist) < MaxConfigOps /\ Store(a, v)
          /\ UNCHANGED << inputs, pc, regs >>

SpecConfig == InitConfig /\ [][NextConfig]_vars

(***************************************************************************)
(* The arithmetic helpers of the CPU, called as the workloads call them:   *)
(* multiply(r0, r1) with the one-element r0 and a vector r1, add of two    *)
(* vectors or two matrices, matmul of two n x n matrices.  The result is   *)
(* kept in the register the workloads assign it to.                        *)
(***************************************************************************)
\* a call of a helper as hist records it
HelperCall(name) == [ name |-> name, address |-> 0, val |-> None, ret |-> None,
                      hit |-> FALSE, time |-> clock ]

\* add also reads the clock
AddMut(arr1, arr2) ==
    /\ err = "none"
    /\ instructions' = instructions + NpLen(arr1)
    /\ hist' = Append(hist, HelperCall("add"))
    /\ clock' = clock + 1
    /\ IF NpCompatible(arr1, arr2)
       THEN regs' = [regs EXCEPT !.r4 = NpAdd(arr1, arr2)] /\ UNCHANGED err
       ELSE err' = "ValueError" /\ UNCHANGED regs
    /\ UNCHANGED << block_size, replacement, sets, blocks_per_set, blocks,
                    read_hits, read_misses, write_hits, write_misses,
                    ram, heap, addr >>

\* CPU.add: the counter grows by len(arr1) before the arrays are added
Add(arr1, arr2) ==
    /\ err = "none"
    /\ instructions' = instructions + NpLen(arr1)
    /\ hist' = Append(hist, HelperCall("add"))
    /\ IF NpCompatible(arr1, arr2)
       THEN regs' = [regs EXCEPT !.r4 = NpAdd(arr1, arr2)] /\ UNCHANGED err
       ELSE err' = "ValueError" /\ UNCHANGED regs
    /\ UNCHANGED << block_size, replacement, sets, blocks_per_set, blocks,
                    read_hits, read_misses, write_hits, write_misses,
                    ram, heap, clock, addr >>

\* CPU.multiply
Multiply(arr1, arr2) ==
    /\ err = "none"
    /\ instructions' = instructions + NpLen(arr1)
    /\ hist' = Append(hist, HelperCall("multiply"))
    /\ IF NpCompatible(arr1, arr2)
       THEN regs' = [regs EXCEPT !.r3 = NpMul(arr1, arr2)] /\ UNCHANGED err
       ELSE err' = "ValueError" /\ UNCHANGED regs
    /\ UNCHANGED << block_size, replacement, sets, blocks_per_set, blocks,
                    read_hits, read_misses, write_hits, write_misses,
                    ram, heap, clock, addr >>

\* CPU.matmul of two n x n matrices
Matmul(mat1, mat2) ==
    /\ err = "none"
    /\ LET n == NpLen(mat1)
       IN  instructions' = instructions + (2 * (n ^ 3) - n ^ 2)
    /\ hist' = Append(hist, HelperCall("matmul"))
    /\ regs' = [regs EXCEPT !.r3 = NpMatmul(mat1, mat2)]
    /\ UNCHANGED << block_size, replacement, sets, blocks_per_set, blocks,
                    read_hits, read_misses, write_hits, write_misses,
                    ram, heap, clock, addr, err >>

\* r0 = np.array([3])
R0 == NpArray(<< 1 >>, << 3 >>)

\* the vectors and the matrices the workloads hold in r1 and r2: what they
\* stored before, the values 0, 1, 2, ... and their doubles
Vectors == { NpArray(<< n >>, [k \in 1..n |-> f * (k - 1)]) : n \in 1..MaxDim, f \in 1..2 }
Matrices == { NpArray(<< n, n >>, [k \in 1..(n * n) |-> f * (k - 1)]) :
              n \in 1..MaxDim, f \in 1..2 }

InitCpu == \E g \in Geometries, repl \in Policies :
               Construct(g, repl, BlocksInRam(MaxAddr, g.bsize)) /\ NoProgram

NextCpu ==
    \/ \E a \in Addrs :
          Len(hist) < MaxCpuOps /\ Load(a) /\ UNCHANGED << inputs, pc, regs >>
    \/ \E a \in Addrs, v \in Vals :
          Len(hist) < MaxCpuOps /\ Store(a, v) /\ UNCHANGED << inputs, pc, regs >>
    \/ \E x \in Vectors :
          Len(hist) < MaxCpuOps /\ Multiply(R0, x) /\ UNCHANGED << inputs, pc >>
    \/ \E x, y \in Vectors \cup Matrices :
          Len(hist) < MaxCpuOps /\ x.shape = y.shape /\ Add(x, y)
          /\ UNCHANGED << inputs, pc >>
    \/ \E x, y \in Matrices :
          Len(hist) < MaxCpuOps /\ x.shape = y.shape /\ Matmul(x, y)
          /\ UNCHANGED << inputs, pc >>

SpecCpu == InitCpu /\ [][NextCpu]_vars

(***************************************************************************)
(* cache-sim.py: main runs the daxpy workload on a CPU built from the      *)
(* command-line arguments and prints the results.  The workload is the     *)
(* sequence of its statements; pc numbers the statement to execute next.   *)
(***************************************************************************)
\* get_inputs: the arguments and the entries of the inputs dict computed
\* from them (the two quotients are whole numbers for the arguments used)
GetInputs(args) ==
    [ cache_size    |-> args.cachesize,
      block_size    |-> args.blocksize,
      associativity |-> args.nway,
      replacement   |-> args.replacement,
      algorithm     |-> args.algorithm,
      dimension     |-> args.dimension,
      print         |-> args.print,
      ram_size      |-> SIZE * args.dimension * 3,
      total_blocks  |-> args.cachesize \div args.blocksize,
      num_sets      |-> (args.cachesize \div args.blocksize) \div args.nway ]

\* create_addresses(n, False): the addresses of a[i], b[i] and c[i]
CreateAddresses(n) ==
    [ a |-> [i \in 0..(n - 1) |-> i * SIZE],
      b |-> [i \in 0..(n - 1) |-> n * SIZE + i * SIZE],
      c |-> [i \in 0..(n - 1) |-> 2 * n * SIZE + i * SIZE] ]

Stmt(op, address, reg, i, val) ==
    [ op |-> op, address |-> address, reg |-> reg, i |-> i, val |-> val ]

\* daxpy(cpu, p, n) followed by print_results: the statements in the order
\* they execute
Daxpy(n, p) ==
    LET at == CreateAddresses(n)
        store == [k \in 1..(3 * n) |->
                    LET i == (k - 1) \div 3
                    IN  IF (k - 1) % 3 = 0 THEN Stmt("store", at.a[i], "", i, i)
                        ELSE IF (k - 1) % 3 = 1
                             THEN Stmt("store", at.b[i], "", i, i * 2)
                             ELSE Stmt("store", at.c[i], "", i, 0)]
        load == [k \in 1..(4 * n) |->
                    LET i == (k - 1) \div 4
                    IN  IF (k - 1) % 4 = 0 THEN Stmt("load", at.a[i], "r1", i, 0)
                        ELSE IF (k - 1) % 4 = 1 THEN Stmt("assign", 0, "r1", i, 0)
                        ELSE IF (k - 1) % 4 = 2 THEN Stmt("load", at.b[i], "r2", i, 0)
                        ELSE Stmt("assign", 0, "r2", i, 0)]
        result == [k \in 1..n |-> Stmt("result", at.c[k - 1], "r4", k - 1, 0)]
        print == [k \in 1..(IF p THEN 2 * n ELSE 0) |->
                    LET i == (k - 1) \div 2
                    IN  IF (k - 1) % 2 = 0
                        THEN Stmt("load", at.c[i], "c_print", i, 0)
                        ELSE Stmt("assign", 0, "c_print", i, 0)]
    IN  store \o load
            \o << Stmt("multiply", 0, "r3", 0, 0), Stmt("add", 0, "r4", 0, 0) >>
            \o result \o print \o << Stmt("print_results", 0, "", 0, 0) >>

\* the workload of this run and the statement pc stands at
Program == IF inputs.algorithm = "daxpy"
           THEN Daxpy(inputs.dimension, inputs.print) ELSE << >>
AtEnd == pc > Len(Program)
Here == Program[pc]
Running(op) ==
    err = "none" /\ inputs.algorithm = "daxpy" /\ ~AtEnd /\ Here.op = op

\* the statement is left behind unless it raised
Advance == pc' = IF err' = "none" THEN pc + 1 ELSE pc

\* main: get_inputs, blocks_in_ram, CPU(blocksize, nway, cachesize,
\* blocks_in_ram, replacement); r1, r2 and c_print are np.zeros_like arrays
Main(args) ==
    /\ inputs = GetInputs(args)
    /\ Construct([ bsize |-> args.blocksize, nsets |-> args.nway,
                   nblocks |-> args.cachesize ],
                 args.replacement,
                 BlocksInRam(SIZE * args.dimension * 3 - 1, args.blocksize))
    /\ pc = 1
    /\ regs = [ NoRegs EXCEPT !.r1 = NpZeros(<< args.dimension >>),
                              !.r2 = NpZeros(<< args.dimension >>),
                              !.c_print = NpZeros(<< args.dimension >>) ]

\* cpu.store(a[i], i); cpu.store(b[i], i * 2); cpu.store(c[i], 0)
DaxpyStore ==
    /\ Running("store")
    /\ Store(Here.address, Here.val)
    /\ Advance
    /\ UNCHANGED << inputs, regs >>

\* the call cpu.load(a[i]), cpu.load(b[i]) or cpu.load(c[i])
DaxpyLoad ==
    /\ Running("load")
    /\ Load(Here.address)
    /\ Advance
    /\ UNCHANGED << inputs, regs >>

\* r1[i] = ..., r2[i] = ..., c_print[i] = ... with the value the load
\* returned: an integer array takes neither None nor nan
DaxpyAssign ==
    /\ Running("assign")
    /\ IF LastOp.ret = None THEN err' = "TypeError" /\ UNCHANGED regs
       ELSE IF LastOp.ret = NaN THEN err' = "ValueError" /\ UNCHANGED regs
       ELSE /\ regs' = [regs EXCEPT ![Here.reg].data[Here.i + 1] = LastOp.ret]
            /\ UNCHANGED err
    /\ Advance
    /\ UNCHANGED << block_size, replacement, sets, blocks_per_set, blocks,
                    read_hits, read_misses, write_hits, write_misses,
                    ram, heap, instructions, clock, addr, hist, inputs >>

\* r3 = cpu.multiply(r0, r1)
DaxpyMultiply ==
    /\ Running("multiply")
    /\ Multiply(R0, regs.r1)
    /\ Advance
    /\ UNCHANGED inputs

\* r4 = cpu.add(r3, r2)
DaxpyAdd ==
    /\ Running("add")
    /\ Add(regs.r3, regs.r2)
    /\ Advance
    /\ UNCHANGED inputs

\* cpu.store(c[i], r4[i])
DaxpyResult ==
    /\ Running("result")
    /\ Store(Here.address, regs.r4.data[Here.i + 1])
    /\ Advance
    /\ UNCHANGED << inputs, regs >>

\* print_results: the miss rates are misses / total, and a total of zero
\* raises ZeroDivisionError
PrintResults ==
    /\ Running("print_results")
    /\ hist' = Append(hist, HelperCall("print_results"))
    /\ err' = IF read_hits + read_misses = 0 \/ write_hits + write_misses = 0
              THEN "ZeroDivisionError" ELSE "none"
    /\ Advance
    /\ UNCHANGED << block_size, replacement, sets, blocks_per_set, blocks,
                    read_hits, read_misses, write_hits, write_misses,
                    ram, heap, instructions, clock, addr, inputs, regs >>

NextMain ==
    \/ DaxpyStore
    \/ DaxpyLoad
    \/ DaxpyAssign
    \/ DaxpyMultiply
    \/ DaxpyAdd
    \/ DaxpyResult
    \/ PrintResults

\* the command lines of SpecMain: cache size and block size in bytes, ways
CacheSizes == {4, 16}
BlockSizes == {2, 8}
Ways == {1, 2}
MainArgs ==
    { [ cachesize |-> c, blocksize |-> b, nway |-> w, replacement |-> repl,
        algorithm |-> "daxpy", dimension |-> d, print |-> p ] :
      c \in CacheSizes, b \in BlockSizes, w \in Ways, repl \in Policies,
      d \in 0..MaxDim, p \in BOOLEAN }

InitMain == \E args \in { x \in MainArgs : /\ x.cachesize % x.blocksize = 0
                                            /\ (x.cachesize \div x.blocksize) % x.nway = 0 } :
                Main(args)

SpecMain == InitMain /\ [][NextMain]_vars

\* -c 2048 -b 64 -n 2 -r LRU -a daxpy -d 4, with and without -p
Scenario(p) ==
    [ cachesize |-> 2048, blocksize |-> 64, nway |-> 2, replacement |-> "LRU",
      algorithm |-> "daxpy", dimension |-> 4, print |-> p ]

InitDaxpy == \E p \in BOOLEAN : Main(Scenario(p))

SpecDaxpy == InitDaxpy /\ [][NextMain]_vars

(***************************************************************************)
(* What the claims speak of.                                               *)
(***************************************************************************)
\* Cache(block_size, num_sets, num_blocks, replacement) built anew over the
\* same RAM, then get_val(address, ram) on it: the outcomes of a cold read
ColdLoad(a) ==
    LET cold == [ blocks |-> NewBlocks(NumBlocks, Len(heap) + 1),
                  ram |-> ram,
                  heap |-> Append(heap, NewBlock(block_size)),
                  clock |-> clock,
                  read_hits |-> 0, read_misses |-> 0,
                  write_hits |-> 0, write_misses |-> 0 ]
    IN  CacheGetVal(cold, sets, blocks_per_set, replacement,
                    Address(a, block_size, NumBlocks, NumSets))

\* a lookup of the address most recently decoded is a hit
Resident(A) ==
    LET got == CacheGetBlock(blocks, sets, blocks_per_set, A)
    IN  got.row.valid /\ got.row.tag = GetTag(A)

\* the row of RAM that is the home of the block of address A
Home(A) == RamIndex(GetTag(A), GetIndex(A))

\* RAM holds a valid block for address A
InRam(A) == Home(A) \in DOMAIN ram /\ ram[Home(A)].valid

\* the geometry is one the decoder is specified for
ValidGeometry ==
    /\ IsPow2(block_size) /\ IsPow2(NumBlocks) /\ IsPow2(NumSets)
    /\ NumBlocks % NumSets = 0

\* C1: after store(addr, v) has returned, a load(addr) through a newly
\* constructed cache over the same RAM returns v.
C1_WriteThrough ==
    (LastOp.name = "store" /\ err = "none")
        => \A o \in ColdLoad(LastOp.address) :
               o.err = "none" /\ o.ret = LastOp.val

\* C2: a get_val that misses while RAM holds a valid block for the address
\* returns the word of that block at the offset and leaves the block
\* installed, so that a lookup of the address is a hit.
C2_ReadMissInstalls ==
    (LastOp.name = "load" /\ ~LastOp.hit /\ InRam(addr))
        => /\ err = "none"
           /\ LastOp.ret = heap[ram[Home(addr)].block].data[ToInt(GetOffset(addr))]
           /\ Resident(addr)

\* C3: no load or store ends in an exception, and a load of an address whose
\* block is neither in the cache nor in RAM returns None.
C3_UninitializedRead ==
    /\ err = "none"
    /\ (LastOp.name = "load" /\ ~LastOp.hit /\ ~InRam(addr))
           => LastOp.ret = None

\* the rows of set number i
RowsOfSet(i) == {r \in DOMAIN blocks : sets[i] <= r /\ r < sets[i] + blocks_per_set}

\* C4: no set holds two valid rows with the same tag.
C4_NoDuplicateTags ==
    \A i \in DOMAIN sets : \A r1, r2 \in RowsOfSet(i) :
        (r1 # r2 /\ blocks[r1].valid /\ blocks[r2].valid)
            => blocks[r1].tag # blocks[r2].tag

\* the run so far is four accesses a, b, a, c to one set of the cache, with
\* three distinct tags, the set having been empty before
TouchedABAC(a, b, c) ==
    /\ Len(hist) = 4
    /\ hist[1].address = a /\ hist[2].address = b
    /\ hist[3].address = a /\ hist[4].address = c
    /\ LET A == Address(a, block_size, NumBlocks, NumSets)
           B == Address(b, block_size, NumBlocks, NumSets)
           C == Address(c, block_size, NumBlocks, NumSets)
       IN  /\ IndexOf(A) = IndexOf(B) /\ IndexOf(B) = IndexOf(C)
           /\ GetTag(A) # GetTag(B) /\ GetTag(A) # GetTag(C)
           /\ GetTag(B) # GetTag(C)

\* the row of the set of address a at way w holds the tag of address c
WayHolds(a, w, c) ==
    LET A == Address(a, block_size, NumBlocks, NumSets)
        C == Address(c, block_size, NumBlocks, NumSets)
        r == sets[IndexOf(A)] + w
    IN  blocks[r].valid /\ blocks[r].tag = GetTag(C)

\* a lookup of address a is a hit
Hit(a) == Resident(Address(a, block_size, NumBlocks, NumSets))

\* the four accesses returned at four different readings of the clock
InThatOrder ==
    hist[1].time < hist[2].time /\ hist[2].time < hist[3].time
        /\ hist[3].time < hist[4].time

\* C5: under LRU, after accesses to tags A, B, A, C of one two-way set that
\* was empty, made one after the other in time, C has taken the row that held
\* B (the second way), a lookup of A is a hit and a lookup of B is a miss.
C5_LruEviction ==
    \A a, b, c \in EvictAddrs :
        (replacement = "LRU" /\ blocks_per_set = 2 /\ TouchedABAC(a, b, c)
            /\ InThatOrder)
            => WayHolds(a, 1, c) /\ Hit(a) /\ ~Hit(b)

\* C6: under FIFO, after accesses to tags A, B, A, C of one two-way set that
\* was empty, C has taken the row that held A (the first way), a lookup of B
\* is a hit and a lookup of A is a miss.
C6_FifoEviction ==
    \A a, b, c \in EvictAddrs :
        (replacement = "FIFO" /\ blocks_per_set = 2 /\ TouchedABAC(a, b, c))
            => WayHolds(a, 0, c) /\ Hit(b) /\ ~Hit(a)

\* the call a step has just made
Called == hist'[Len(hist')]

\* C7: in the direct-mapped cache every load and store touches only the row
\* numbered (address div block size) mod rows, whatever the replacement
\* policy, and leaves that row valid with the tag of the address: a block with
\* another tag that was there is replaced.
C7_DirectMapped ==
    [][ (DirectMapped(sets) /\ hist' # hist) =>
          LET a    == Called.address
              slot == (a \div block_size) % NumBlocks
              tag  == a \div (block_size * NumBlocks)
          IN  /\ \A r \in DOMAIN blocks : r # slot => blocks'[r] = blocks[r]
              /\ blocks'[slot].valid
              /\ ToInt(blocks'[slot].tag) = tag
      ]_vars

\* a direct-mapped run under FIFO stored to address 0 and then to address 4,
\* which has the same index and another tag: row 0 now holds tag 1
C7_Witness ==
    /\ DirectMapped(sets) /\ replacement = "FIFO"
    /\ Len(hist) = 2
    /\ hist[1].name = "store" /\ hist[1].address = 0
    /\ hist[2].name = "store" /\ hist[2].address = 4 /\ ~hist[2].hit
    /\ blocks[0].valid /\ ToInt(blocks[0].tag) = 1
    /\ ~blocks[1].valid

\* the number of calls of one name made so far
RECURSIVE CountOf(_, _)
CountOf(name, k) ==
    IF k = 0 THEN 0
    ELSE CountOf(name, k - 1) + (IF hist'[k].name = name THEN 1 ELSE 0)

\* the width of the index field and the rows of the set address a selects, by
\* the arithmetic of the geometry
IndexRange == IF NumSets = 1 THEN NumBlocks
              ELSE IF NumSets = NumBlocks THEN 1 ELSE NumSets
AddressedRows(a) ==
    LET index == (a \div block_size) % IndexRange
    IN  IF NumSets = 1 THEN {index}
        ELSE { r \in DOMAIN blocks : index * (NumBlocks \div NumSets) <= r
                                     /\ r < (index + 1) * (NumBlocks \div NumSets) }

\* a valid row of the set address a selects holds the tag of a
HoldsTag(a) ==
    \E r \in AddressedRows(a) :
        blocks[r].valid /\ ToInt(blocks[r].tag) = a \div (block_size * IndexRange)

\* C8: a load adds 1 to exactly one of read_hits and read_misses and leaves
\* the write counters alone, a store adds 1 to exactly one of write_hits and
\* write_misses and leaves the read counters alone; the hit counter is the one
\* that grows exactly when a valid row of the addressed set held the tag; so
\* the read counters sum to the number of loads and the write counters to the
\* number of stores.
C8_HitMissAccounting ==
    [][ hist' # hist =>
          /\ Called.name = "load" =>
                /\ UNCHANGED << write_hits, write_misses >>
                /\ IF HoldsTag(Called.address)
                   THEN read_hits' = read_hits + 1 /\ UNCHANGED read_misses
                   ELSE read_misses' = read_misses + 1 /\ UNCHANGED read_hits
          /\ Called.name = "store" =>
                /\ UNCHANGED << read_hits, read_misses >>
                /\ IF HoldsTag(Called.address)
                   THEN write_hits' = write_hits + 1 /\ UNCHANGED write_misses
                   ELSE write_misses' = write_misses + 1 /\ UNCHANGED write_hits
          /\ read_hits' + read_misses' = CountOf("load", Len(hist'))
          /\ write_hits' + write_misses' = CountOf("store", Len(hist'))
      ]_vars

\* a run with a write miss, a write hit and a read hit
C8_Witness ==
    /\ Len(hist) = 3
    /\ read_hits = 1 /\ read_misses = 0 /\ write_hits = 1 /\ write_misses = 1

\* C9: the tag, index and offset the decoder returns have the lengths the
\* Address holds for them, the lengths sum to the width of an address, and
\* tag, index and offset one after the other are the address in binary.
C9_AddressPartition ==
    LastOp.name = "decode" =>
        /\ Len(GetTag(addr)) = addr.tag_len
        /\ Len(GetIndex(addr)) = addr.index_len
        /\ Len(GetOffset(addr)) = addr.offset_len
        /\ Len(GetTag(addr)) + Len(GetIndex(addr)) + Len(GetOffset(addr)) = AddrBits
        /\ GetTag(addr) \o GetIndex(addr) \o GetOffset(addr)
               = GetBinary(LastOp.address)

\* C10: a CPU constructed with a geometry that is not valid is in the error
\* state ConfigurationError and has made no load or store.
C10_ConfigurationValidated ==
    ~ValidGeometry => err = "ConfigurationError" /\ hist = << >>

\* C11: a cache row whose valid flag is true keeps it true over every step:
\* no load or store sets a row back to invalid.
C11_ValidityStable ==
    [][ \A r \in DOMAIN blocks : blocks[r].valid => blocks'[r].valid ]_vars

\* the one row the two-set, two-row cache ever uses was installed by a store
\* to address 0 and then replaced by a store to address 2: it is still valid
C11_Witness ==
    /\ NumSets = 2 /\ NumBlocks = 2
    /\ Len(hist) = 2
    /\ hist[1].name = "store" /\ hist[1].address = 0
    /\ hist[2].name = "store" /\ hist[2].address = 2 /\ ~hist[2].hit
    /\ blocks[0].valid /\ ToInt(blocks[0].tag) = 1

\* C12: over every step each of read_hits, read_misses, write_hits and
\* write_misses is at least what it was: no call decreases or resets a counter.
C12_CountersMonotone ==
    [][ /\ read_hits' >= read_hits
        /\ read_misses' >= read_misses
        /\ write_hits' >= write_hits
        /\ write_misses' >= write_misses ]_vars

\* a write miss, then a write hit, then a read miss that ends in an exception
\* (the direct-mapped read of a block never written): the counters stand
C12_Witness ==
    /\ Len(hist) = 3
    /\ hist[3].name = "load" /\ err # "none"
    /\ write_misses = 1 /\ write_hits = 1 /\ read_misses = 1 /\ read_hits = 0

\* C13: no Block object is held both by a valid cache row and by a valid row
\* of RAM: what crosses between the cache and RAM is a copy.
C13_NoAliasing ==
    \A r \in DOMAIN blocks, i \in DOMAIN ram :
        (blocks[r].valid /\ ram[i].valid /\ blocks[r].block # NoBlock)
            => blocks[r].block # ram[i].block

\* the rows that differ between the state before a step and the state after
Changed == {r \in DOMAIN blocks : blocks'[r] # blocks[r]}

\* the rows of the set that address a selects, as the cache lays its sets out
TargetSet(a) == RowsOfSet(IndexOf(Address(a, block_size, NumBlocks, NumSets)))

\* the tag of address a
TagOf(a) == GetTag(Address(a, block_size, NumBlocks, NumSets))

\* C19: when a store misses and the set of its index is full, exactly one row
\* changes, that row lies in the set of the index, it afterwards is valid with
\* the tag of the address for random, FIFO and LRU alike, and the rows of every
\* other set are unchanged.
C19_EvictionConfined ==
    [][ (hist' # hist /\ ~DirectMapped(sets) /\ Called.name = "store"
            /\ ~Called.hit /\ err' = "none"
            /\ \A r \in TargetSet(Called.address) : blocks[r].valid)
        => /\ Cardinality(Changed) = 1
           /\ Changed \subseteq TargetSet(Called.address)
           /\ \A r \in Changed :
                 blocks'[r].valid /\ blocks'[r].tag = TagOf(Called.address)
      ]_vars

\* C20: when a call installs a block and the target set has an invalid row,
\* the lowest-numbered invalid row of the set becomes valid with the tag of the
\* address and with insertion and last-access time both the reading of the
\* clock; no other row changes, so no valid row is overwritten or evicted.
\* Every store that misses installs; a load that misses installs in the
\* direct-mapped cache, where the target set is the one row of the index.
C20_InstallNonFull ==
    [][ (hist' # hist /\ ~Called.hit
            /\ (Called.name = "store" \/ DirectMapped(sets))
            /\ blocks' # blocks
            /\ \E r \in AddressedRows(Called.address) : ~blocks[r].valid)
        => LET free == {r \in AddressedRows(Called.address) : ~blocks[r].valid}
               slot == CHOOSE r \in free : \A q \in free : r <= q
           IN  /\ Changed = {slot}
               /\ blocks'[slot].valid
               /\ ToInt(blocks'[slot].tag)
                      = Called.address \div (block_size * IndexRange)
               /\ blocks'[slot].time_in = clock'
               /\ blocks'[slot].time_acc = clock'
      ]_vars

\* in the two-way cache a store to address 0 took the first row of set 0 and
\* a store to address 4 (same set, another tag) took the second, which was
\* then the lowest invalid row; the first row kept its block
C20_Witness ==
    /\ NumSets = 2 /\ NumBlocks = 4
    /\ Len(hist) = 2
    /\ hist[1].name = "store" /\ hist[1].address = 0
    /\ hist[2].name = "store" /\ hist[2].address = 4 /\ ~hist[2].hit
    /\ blocks[0].valid /\ ToInt(blocks[0].tag) = 0
    /\ blocks[1].valid /\ ToInt(blocks[1].tag) = 1
    /\ blocks[1].time_in = clock /\ blocks[1].time_acc = clock

\* C16: a load and a store each add 1 to the instruction counter; add and
\* multiply add one per element of the elementwise operation they perform,
\* which is the number of elements of their result (n for the multiply and for
\* the add of the elementwise workload of dimension n); matmul of two n x n
\* matrices adds 2n^3 - n^2.
C16_InstructionCounting ==
    [][ hist' # hist =>
          /\ Called.name \in {"load", "store"} => instructions' = instructions + 1
          /\ Called.name = "add"
                => instructions' = instructions + Len(regs'.r4.data)
          /\ Called.name = "multiply"
                => instructions' = instructions + Len(regs'.r3.data)
          /\ Called.name = "matmul"
                => LET n == NpLen(regs'.r3)
                   IN  instructions' = instructions + (2 * n * n * n - n * n)
      ]_vars

\* C17: a call of add, multiply or matmul leaves every cache row, every row of
\* RAM, every Block, the clock and the four hit/miss counters unchanged, and
\* whether a load or store hits is decided by the rows of the cache alone,
\* whatever the instruction counter is.
C17_HelpersCacheNeutral ==
    [][ hist' # hist =>
          /\ Called.name \in {"add", "multiply", "matmul"}
                => /\ UNCHANGED << blocks, ram, heap, clock, sets, blocks_per_set >>
                   /\ UNCHANGED << read_hits, read_misses, write_hits, write_misses >>
                   /\ instructions' > instructions
          /\ Called.name \in {"load", "store"}
                => Called.hit = HoldsTag(Called.address)
      ]_vars

\* a store, then a helper call that moved the instruction counter and left the
\* stored block where it was, in the cache and in RAM
C17_Witness ==
    /\ Len(hist) = 2
    /\ hist[1].name = "store" /\ hist[1].address = 0
    /\ hist[2].name \in {"add", "multiply", "matmul"}
    /\ instructions > 1
    /\ write_misses = 1
    /\ Hit(0) /\ ram[0].valid /\ heap[ram[0].block].data[0] = hist[1].val

\* the word a load of address a returns now, and the word RAM holds for it
WordInCache(a) ==
    { o.ret : o \in CacheGetVal(Machine, sets, blocks_per_set, replacement,
                                Address(a, block_size, NumBlocks, NumSets)) }
WordInRam(a) ==
    LET A == Address(a, block_size, NumBlocks, NumSets)
    IN  heap[ram[Home(A)].block].data[ToInt(GetOffset(A))]

\* the hand trace: the loads and stores of hist[1..k] replayed against a
\* cache of inputs.num_sets sets of inputs.associativity ways with LRU
\* replacement that installs a block on every miss; each set lists its tags
\* from the least to the most recently used
RECURSIVE HandTrace(_)
HandTrace(k) ==
    IF k = 0
    THEN [ ways |-> [i \in 0..(inputs.num_sets - 1) |-> << >>],
           read_hits |-> 0, read_misses |-> 0,
           write_hits |-> 0, write_misses |-> 0 ]
    ELSE LET T    == HandTrace(k - 1)
             op   == hist[k]
             blk  == op.address \div inputs.block_size
             i    == blk % inputs.num_sets
             tag  == blk \div inputs.num_sets
             held == \E j \in 1..Len(T.ways[i]) : T.ways[i][j] = tag
             kept == IF held THEN SelectSeq(T.ways[i], LAMBDA t : t # tag)
                     ELSE IF Len(T.ways[i]) = inputs.associativity
                          THEN Tail(T.ways[i]) ELSE T.ways[i]
             T1   == [T EXCEPT !.ways[i] = Append(kept, tag)]
         IN  IF op.name = "load"
             THEN IF held THEN [T1 EXCEPT !.read_hits = @ + 1]
                  ELSE [T1 EXCEPT !.read_misses = @ + 1]
             ELSE IF op.name = "store"
             THEN IF held THEN [T1 EXCEPT !.write_hits = @ + 1]
                  ELSE [T1 EXCEPT !.write_misses = @ + 1]
             ELSE T

\* the statement pc stands at can execute: its call has an outcome
CanProceed ==
    LET A == Address(Here.address, block_size, NumBlocks, NumSets)
    IN  /\ Here.op \in {"store", "load", "assign", "multiply", "add", "result",
                        "print_results"}
        /\ Here.op = "load"
              => CacheGetVal(Machine, sets, blocks_per_set, replacement, A) # {}
        /\ Here.op \in {"store", "result"}
              => CacheSetVal(Machine, sets, blocks_per_set, replacement,
                             block_size, A, 0) # {}

\* C14: with block size 64, cache size 2048, 2 ways, LRU and the daxpy
\* workload of dimension 4, no statement raises, the run goes on until
\* print_results has returned, and then for every i in 0..3 the word at c[i],
\* in RAM and as a load returns it, is 3 * i + 2 * i, and the four counters are
\* those of the hand trace of the calls against 32 blocks in 16 sets.
C14_DaxpyScenario ==
    /\ err = "none"
    /\ ~AtEnd => CanProceed
    /\ AtEnd =>
          /\ \A i \in 0..(inputs.dimension - 1) :
                LET c == CreateAddresses(inputs.dimension).c[i]
                IN  WordInRam(c) = 3 * i + 2 * i /\ WordInCache(c) = {3 * i + 2 * i}
          /\ inputs.total_blocks = 32 /\ inputs.num_sets = 16
          /\ LET T == HandTrace(Len(hist))
             IN  /\ read_hits = T.read_hits /\ read_misses = T.read_misses
                 /\ write_hits = T.write_hits /\ write_misses = T.write_misses

\* the scenario run with -p has ended: 16 stores of which the first to each of
\* the two blocks missed, 12 loads that all hit, and c printed as 0, 5, 10, 15
C14_Witness ==
    /\ AtEnd /\ err = "none"
    /\ inputs.cache_size = 2048 /\ inputs.block_size = 64 /\ inputs.print
    /\ LastOp.name = "print_results"
    /\ regs.c_print.data = << 0, 5, 10, 15 >>
    /\ write_misses = 2 /\ write_hits = 14 /\ read_hits = 12 /\ read_misses = 0

\* C15: for a run with cache size c, block size b and w ways the constructed
\* cache has c/b rows in (c/b)/w sets of w rows each, the total-blocks and
\* number-of-sets values of the inputs that the report echoes; it is direct
\* mapped when w = 1.
C15_GeometryFromConfiguration ==
    inputs.algorithm = "daxpy" =>
        /\ NumBlocks = inputs.total_blocks
        /\ NumSets = inputs.num_sets
        /\ blocks_per_set = inputs.associativity
        /\ inputs.associativity = 1 <=> DirectMapped(sets)

\* C18: when print_results is called with no reads or no writes counted, it
\* returns without an exception.
C18_MissRateGuard ==
    (LastOp.name = "print_results"
        /\ (read_hits + read_misses = 0 \/ write_hits + write_misses = 0))
        => err = "none" /\ AtEnd

\* the lowest valid row of the set address a selects that holds the tag of a
HitRow(a) ==
    LET rows == { r \in AddressedRows(a) :
                    blocks[r].valid
                    /\ ToInt(blocks[r].tag) = a \div (block_size * IndexRange) }
    IN  CHOOSE r \in rows : \A q \in rows : r <= q

\* C21: when a store of v finds a valid row with the tag of the address, then
\* afterwards the word at the offset is v in the Block of that row and in the
\* Block RAM holds at (tag, index); the row keeps its tag, its valid flag, its
\* Block and its insertion time, its last-access time is the reading of the
\* clock taken by the call, and no other row of the cache changes.
C21_WriteHit ==
    [][ (hist' # hist /\ Called.name = "store" /\ HoldsTag(Called.address)) =>
          LET a      == Called.address
              r      == HitRow(a)
              offset == a % block_size
              home   == a \div block_size
          IN  /\ err' = "none" /\ Called.hit
              /\ heap'[blocks'[r].block].data[offset] = Called.val
              /\ ram'[home].valid
              /\ heap'[ram'[home].block].data[offset] = Called.val
              /\ blocks'[r].valid
              /\ blocks'[r].tag = blocks[r].tag
              /\ blocks'[r].block = blocks[r].block
              /\ blocks'[r].time_in = blocks[r].time_in
              /\ blocks'[r].time_acc = clock' /\ clock' >= clock
              /\ \A q \in DOMAIN blocks : q # r => blocks'[q] = blocks[q]
      ]_vars

\* a store to address 4 installed its block, a store to address 5 (the other
\* word of the block) hit and a second store to address 4 hit again: the
\* block holds the last two values, in the cache and in RAM
C21_Witness ==
    /\ Len(hist) = 3
    /\ hist[1].name = "store" /\ hist[1].address = 4 /\ ~hist[1].hit
    /\ hist[2].name = "store" /\ hist[2].address = 5 /\ hist[2].hit
    /\ hist[3].name = "store" /\ hist[3].address = 4 /\ hist[3].hit
    /\ write_hits = 2
    /\ WordInRam(4) = hist[3].val /\ WordInRam(5) = hist[2].val
    /\ WordInCache(4) = {hist[3].val}

\* the stores made to address a so far, by their place in hist
StoresTo(a) == { k \in 1..Len(hist) : hist[k].name = "store" /\ hist[k].address = a }

\* the value most recently stored to address a
LastStored(a) ==
    hist[CHOOSE k \in StoresTo(a) : \A j \in StoresTo(a) : j <= k].val

\* C22: whatever loads and stores were made, a load of address X that returns
\* a value (not None, and not the nan of a word never written) returns the
\* value most recently stored to X, never a value stored to another address.
C22_ReadYourWrites ==
    err = "none" =>
        \A a \in EvictAddrs :
            \A o \in CacheGetVal(Machine, sets, blocks_per_set, replacement,
                                 Address(a, block_size, NumBlocks, NumSets)) :
                (o.err = "none" /\ o.ret \notin {None, NaN})
                    => StoresTo(a) # {} /\ o.ret = LastStored(a)

\* the word a RAM with rows rm over the Blocks hp holds for address y: nan
\* when the row of the block is not valid
RamWord(rm, hp, y) ==
    LET home == y \div block_size
    IN  IF home \in DOMAIN rm /\ rm[home].valid /\ rm[home].block # NoBlock
        THEN hp[rm[home].block].data[y % block_size]
        ELSE NaN

\* every address of the RAM
RamAddrs == { y \in 0..(block_size * Cardinality(DOMAIN ram) - 1) : TRUE }

\* C23: a store to address X changes no word RAM holds for an address other
\* than X, and afterwards no two valid rows of RAM hold the same Block.
C23_StoreIsolation ==
    [][ (hist' # hist /\ Called.name = "store") =>
          /\ \A y \in RamAddrs :
                y # Called.address
                    => RamWord(ram', heap', y) = RamWord(ram, heap, y)
          /\ \A i, j \in DOMAIN ram :
                (i # j /\ ram'[i].valid /\ ram'[j].valid)
                    => ram'[i].block # ram'[j].block
      ]_vars

\* the calls made so far are stores to n addresses of n different blocks
StoredDistinctBlocks(n) ==
    /\ Len(hist) = n
    /\ \A k \in 1..n : hist[k].name = "store"
    /\ \A j, k \in 1..n :
           j # k => hist[j].address \div block_size # hist[k].address \div block_size

\* C24: in the fully associative configuration (as many sets as rows, more
\* than one row, index width 0) stores to as many addresses as there are rows,
\* all of different blocks, leave all those blocks resident at once, so that a
\* further store to any of them is a write hit, and leave every row valid
C24_FullyAssociativeCapacity ==
    (NumSets = NumBlocks /\ NumBlocks > 1 /\ err = "none"
        /\ StoredDistinctBlocks(NumBlocks))
        => /\ \A k \in 1..Len(hist) : Hit(hist[k].address)
           /\ \A r \in DOMAIN blocks : blocks[r].valid

\* C25: a load that finds the block neither in the cache nor in RAM leaves
\* every row of the cache and every row of RAM as it was, and changes only
\* read_misses and the instruction counter, each by one
C25_FailedRead ==
    [][ (hist' # hist /\ Called.name = "load"
            /\ ~Hit(Called.address)
            /\ ~InRam(Address(Called.address, block_size, NumBlocks, NumSets)))
        => /\ blocks' = blocks
           /\ ram' = ram
           /\ read_misses' = read_misses + 1
           /\ instructions' = instructions + 1
           /\ UNCHANGED << read_hits, write_hits, write_misses >>
      ]_vars

====
